---------------------------- MODULE Spec2Model ----------------------------
(***************************************************************************)
(* A model of view_traces.py: load_trace, extract_trace_info and           *)
(* list_traces.                                                            *)
(*                                                                         *)
(* Python values are tagged records of one shape per position, so that a   *)
(* dictionary key that is not there, a key set to None, and a value of an  *)
(* unexpected JSON type are three different things.  A tag "missing" is a  *)
(* key that is not in the dictionary.                                      *)
(***************************************************************************)
EXTENDS Integers, Sequences, FiniteSets, TLC

(***************************************************************************)
(* Bounds of the model.                                                    *)
(***************************************************************************)
MaxEntries == 3
MaxLimit == 2
MaxTokens == 2
MaxSpans == 2

(***************************************************************************)
(* Scalar Python values: a missing key, None, an int, a str, a list of n   *)
(* elements (only its length is ever read), or a dict.                     *)
(***************************************************************************)
Missing == [t |-> "missing", n |-> 0, s |-> ""]
PyNone == [t |-> "none", n |-> 0, s |-> ""]
PyInt(k) == [t |-> "int", n |-> k, s |-> ""]
PyStr(x) == [t |-> "str", n |-> 0, s |-> x]
PyList(k) == [t |-> "list", n |-> k, s |-> ""]
PyDict == [t |-> "dict", n |-> 0, s |-> ""]

Digits == <<"0", "1", "2", "3", "4", "5", "6", "7", "8", "9">>

RECURSIVE NatToStr(_)
NatToStr(k) ==
    IF k < 10 THEN Digits[k + 1]
    ELSE NatToStr(k \div 10) \o Digits[(k % 10) + 1]

\* str(v) of Python.  The summaries of the records below hold None, ints
\* and strs only; a list or a dict is told apart from them, its elements
\* are not spelled out.
Str(v) ==
    CASE v.t = "none" -> "None"
      [] v.t = "int" -> IF v.n < 0 THEN "-" \o NatToStr(-v.n) ELSE NatToStr(v.n)
      [] v.t = "str" -> v.s
      [] v.t = "list" -> IF v.n = 0 THEN "[]" ELSE "[...]"
      [] OTHER -> "{...}"

\* d.get(k): the value of a key, None when the key is not there.
Get(v) == IF v.t = "missing" THEN PyNone ELSE v

(***************************************************************************)
(* The JSON payloads of the two well-known attributes.  An attribute value *)
(* is "absent" (key not in attributes), "nonstr" (a JSON value that is not *)
(* a string: a number, null, an object), "badtext" (a string that is not   *)
(* JSON) or "text" (a string that is the JSON text of data).               *)
(***************************************************************************)
NoExtra == [t |-> "missing", index |-> Missing]
NoKwargs == [t |-> "missing", index |-> Missing, data_source |-> Missing,
             extra_info |-> NoExtra]
NoInputs == [t |-> "other", kwargs |-> NoKwargs]
NoOutputs == [t |-> "other", token_ids |-> Missing]
AbsentIn == [t |-> "absent", data |-> NoInputs]
AbsentOut == [t |-> "absent", data |-> NoOutputs]
NoAttributes == [t |-> "missing", inputs |-> AbsentIn, outputs |-> AbsentOut]
NoStatus == [t |-> "missing", code |-> Missing]

\* json.loads(value): TypeError for a value that is no string,
\* JSONDecodeError for a string that is no JSON text, else the decoded value.
JsonLoads(a) ==
    CASE a.t = "nonstr" -> [exc |-> "TypeError", data |-> a.data]
      [] a.t = "badtext" -> [exc |-> "JSONDecodeError", data |-> a.data]
      [] OTHER -> [exc |-> "", data |-> a.data]

\* The except clause of the extraction loop.
Caught(exc) == exc \in {"JSONDecodeError", "AttributeError"}

\* len(token_ids) if isinstance(token_ids, list) else None
TokenCountAnyLen(token_ids) ==
    IF token_ids.t = "list" THEN PyInt(token_ids.n)
    ELSE IF token_ids.t = "str" THEN PyInt(Len(token_ids.s))
    ELSE PyNone
TokenCount(token_ids) ==
    IF token_ids.t = "list" THEN PyInt(token_ids.n) ELSE PyNone

\* The try body for key "mlflow.spanInputs": the exception it ends with
\* ("" for none) and info as the assignments made before it leave it.
InputsBody(info, a) ==
    LET r == JsonLoads(a) IN
    IF r.exc # "" THEN [exc |-> r.exc, info |-> info]
    ELSE IF r.data.t # "dict" THEN [exc |-> "AttributeError", info |-> info]
    ELSE LET kwargs == r.data.kwargs IN
         IF kwargs.t = "other" THEN [exc |-> "AttributeError", info |-> info]
         ELSE LET info1 == [info EXCEPT !.index = Get(kwargs.index),
                                        !.data_source = Get(kwargs.data_source)]
                  extra == kwargs.extra_info
              IN  IF kwargs.t = "missing" \/ extra.t = "missing"
                  THEN [exc |-> "", info |-> [info1 EXCEPT !.sample_index = PyNone]]
                  ELSE IF extra.t = "dict"
                  THEN [exc |-> "",
                        info |-> [info1 EXCEPT !.sample_index = Get(extra.index)]]
                  ELSE [exc |-> "", info |-> info1]

\* The try body for key "mlflow.spanOutputs".
OutputsBody(info, a) ==
    LET r == JsonLoads(a) IN
    IF r.exc # "" THEN [exc |-> r.exc, info |-> info]
    ELSE IF r.data.t # "dict" THEN [exc |-> "AttributeError", info |-> info]
    ELSE LET token_ids == IF r.data.token_ids.t = "missing" THEN PyList(0)
                          ELSE r.data.token_ids
         IN  [exc |-> "", info |-> [info EXCEPT !.output_tokens = TokenCount(token_ids)]]

\* One turn of "for key in [...]": skipped when the key is not in
\* attributes, an exception the except clause names is passed over.
Handled(info, a, body) ==
    IF a.t = "absent" THEN [exc |-> "", info |-> info]
    ELSE IF Caught(body.exc) THEN [exc |-> "", info |-> body.info]
    ELSE body

(***************************************************************************)
(* Summaries: a dict over these keys, "missing" where the key is not set.  *)
(***************************************************************************)
InfoKeys == {"trace_id", "status", "spans", "index", "data_source",
             "sample_index", "output_tokens", "path"}
DerivedKeys == {"index", "data_source", "sample_index", "output_tokens"}
EmptyInfo == [k \in InfoKeys |-> Missing]

\* The empty record load_trace returns for a folder with no artifact.
EmptyRecord == [t |-> "empty", trace_id |-> Missing, status |-> NoStatus,
                hasSpans |-> FALSE, spans |-> <<>>]

\* "if spans:" is what guards the read of spans[0].
HasFirstSpanAlways(spans) == TRUE
HasFirstSpan(spans) == Len(spans) > 0

\* first_span.get("attributes", {})
AttributesOf(span) ==
    IF span.attributes.t = "missing" THEN NoAttributes ELSE span.attributes

\* extract_trace_info(trace_data): the exception it raises ("" for none)
\* and the summary it returns.
ExtractTraceInfo(trace_data) ==
    IF trace_data.t # "dict" THEN [exc |-> "", info |-> EmptyInfo]
    ELSE
    LET status == IF trace_data.status.t = "missing" THEN PyNone
                  ELSE Get(trace_data.status.code)
        spans == IF trace_data.hasSpans THEN trace_data.spans ELSE <<>>
        info0 == [EmptyInfo EXCEPT !.trace_id = Get(trace_data.trace_id),
                                   !.status = status,
                                   !.spans = PyInt(Len(spans))]
    IN  IF ~HasFirstSpan(spans) THEN [exc |-> "", info |-> info0]
        ELSE IF Len(spans) = 0 THEN [exc |-> "IndexError", info |-> info0]
        ELSE LET attributes == AttributesOf(spans[1])
                 r1 == Handled(info0, attributes.inputs,
                               InputsBody(info0, attributes.inputs))
             IN  IF r1.exc # "" THEN r1
                 ELSE Handled(r1.info, attributes.outputs,
                              OutputsBody(r1.info, attributes.outputs))

(***************************************************************************)
(* The trace records extract_trace_info is applied to.                     *)
(***************************************************************************)
IndexValues == {Missing, PyNone, PyInt(5)}
SourceValues == {Missing, PyStr("a"), PyStr("b")}
ExtraValues ==
    {NoExtra, [NoExtra EXCEPT !.t = "other"], [NoExtra EXCEPT !.t = "dict"],
     [t |-> "dict", index |-> PyInt(9)]}
KwargsValues ==
    {NoKwargs, [NoKwargs EXCEPT !.t = "other"]}
    \cup [t : {"dict"}, index : IndexValues, data_source : SourceValues,
          extra_info : ExtraValues]
InputsPayloads == {NoInputs} \cup [t : {"dict"}, kwargs : KwargsValues]
InputsAttrs ==
    {AbsentIn, [AbsentIn EXCEPT !.t = "nonstr"], [AbsentIn EXCEPT !.t = "badtext"]}
    \cup [t : {"text"}, data : InputsPayloads]
TokenValues ==
    {Missing, PyNone, PyStr("abc"), PyDict} \cup {PyList(k) : k \in 0..MaxTokens}
OutputsPayloads == {NoOutputs} \cup [t : {"dict"}, token_ids : TokenValues]
OutputsAttrs ==
    {AbsentOut, [AbsentOut EXCEPT !.t = "nonstr"], [AbsentOut EXCEPT !.t = "badtext"]}
    \cup [t : {"text"}, data : OutputsPayloads]
AttributesValues ==
    {NoAttributes} \cup [t : {"dict"}, inputs : InputsAttrs, outputs : OutputsAttrs]
\* A span after the first one: extract_trace_info never reads it.
LaterSpan == [attributes |-> NoAttributes]
SpanLists ==
    {<<>>} \cup
    {[j \in 1..k |-> IF j = 1 THEN [attributes |-> a] ELSE LaterSpan] :
        k \in 1..MaxSpans, a \in AttributesValues}
StatusValues ==
    {NoStatus, [NoStatus EXCEPT !.t = "dict"], [t |-> "dict", code |-> PyStr("OK")]}
TraceRecords ==
    {EmptyRecord}
    \cup [t : {"dict"}, trace_id : {Missing, PyStr("t1")}, status : StatusValues,
          hasSpans : {FALSE}, spans : {<<>>}]
    \cup [t : {"dict"}, trace_id : {Missing, PyStr("t1")}, status : StatusValues,
          hasSpans : {TRUE}, spans : SpanLists]

(***************************************************************************)
(* The trace directory: MaxEntries entries, named 1..MaxEntries in the     *)
(* order of their names.  An entry is a file or a directory, its name has  *)
(* the prefix "tr-" or not, and artifacts/traces.json under it is not      *)
(* there ("none"), is no JSON text ("malformed") or holds a record.        *)
(***************************************************************************)
Span(a) == [attributes |-> a]
TextIn(kw) == [t |-> "text", data |-> [t |-> "dict", kwargs |-> kw]]
TextOut(tok) == [t |-> "text", data |-> [t |-> "dict", token_ids |-> tok]]
Record(id, spans) ==
    [t |-> "dict", trace_id |-> PyStr(id),
     status |-> [t |-> "dict", code |-> PyStr("OK")],
     hasSpans |-> TRUE, spans |-> spans]

RecZero == Record("t0", <<>>)
RecA ==
    Record("ta", <<Span([t |-> "dict",
                         inputs |-> TextIn([t |-> "dict", index |-> PyInt(5),
                                            data_source |-> PyStr("a"),
                                            extra_info |-> [t |-> "dict",
                                                            index |-> PyInt(9)]]),
                         outputs |-> TextOut(PyList(2))])>>)
RecB ==
    Record("tb", <<Span([t |-> "dict",
                         inputs |-> TextIn([t |-> "dict", index |-> Missing,
                                            data_source |-> PyStr("b"),
                                            extra_info |-> NoExtra]),
                         outputs |-> AbsentOut]),
                   LaterSpan>>)
RecNonStr ==
    Record("tn", <<Span([t |-> "dict",
                         inputs |-> [AbsentIn EXCEPT !.t = "nonstr"],
                         outputs |-> AbsentOut])>>)

Artifacts ==
    {[file |-> "none", data |-> EmptyRecord],
     [file |-> "malformed", data |-> EmptyRecord],
     [file |-> "json", data |-> EmptyRecord]}
    \cup [file : {"json"}, data : {RecZero, RecA, RecB, RecNonStr}]

Entries ==
    [is_dir : {TRUE}, prefix : {TRUE}, artifact : Artifacts]
    \cup {[is_dir |-> FALSE, prefix |-> TRUE,
           artifact |-> [file |-> "none", data |-> EmptyRecord]],
          [is_dir |-> TRUE, prefix |-> FALSE,
           artifact |-> [file |-> "json", data |-> RecA]]}

Names == 1..MaxEntries

\* The filters of a call, as the (key, expected) items of the dict.
FilterValues ==
    {<<>>,
     <<<<"data_source", "a">>>>,
     <<<<"spans", "2">>>>,
     <<<<"data_source", "None">>>>,
     <<<<"status", "OK">>, <<"spans", "1">>>>,
     <<<<"step", "1">>>>}

LimitValues == {PyNone} \cup {PyInt(k) : k \in 0..MaxLimit}

VARIABLES
    dir,            \* the entries of trace_dir, by name
    filters,        \* the filters argument
    limit,          \* the limit argument
    pc,             \* where the call is
    trace_folders,  \* the sorted candidates
    i,              \* the position in trace_folders of the next candidate
    traces,         \* the result list
    trace_data,     \* the last record load_trace returned
    info,           \* the last summary extract_trace_info returned
    exc,            \* the exception the call ended with, "" for none
    loaded          \* the names load_trace has been called on

vars == <<dir, filters, limit, pc, trace_folders, i, traces, trace_data, info,
          exc, loaded>>

\* sorted(...) of a set of names.
RECURSIVE Sorted(_)
Sorted(S) ==
    IF S = {} THEN <<>>
    ELSE LET m == CHOOSE x \in S : \A y \in S : x <= y
         IN  <<m>> \o Sorted(S \ {m})

\* [d for d in trace_dir.iterdir() if d.is_dir() and d.name.startswith("tr-")]
IsCandidate(e) == e.is_dir /\ e.prefix

\* load_trace(trace_path): the exception it raises and the record it returns.
LoadTraceNoExistsCheck(e) ==
    CASE e.artifact.file = "none" ->
            [exc |-> "FileNotFoundError", data |-> EmptyRecord]
      [] e.artifact.file = "malformed" ->
            [exc |-> "JSONDecodeError", data |-> EmptyRecord]
      [] OTHER -> [exc |-> "", data |-> e.artifact.data]
LoadTrace(e) ==
    CASE e.artifact.file = "none" -> [exc |-> "", data |-> EmptyRecord]
      [] e.artifact.file = "malformed" ->
            [exc |-> "JSONDecodeError", data |-> EmptyRecord]
      [] OTHER -> [exc |-> "", data |-> e.artifact.data]

\* "not info"
IsEmptyInfo(x) == \A k \in InfoKeys : x[k].t = "missing"

\* info.get(k)
InfoGet(x, k) == IF k \in InfoKeys THEN Get(x[k]) ELSE PyNone

\* all(str(info.get(k)) == v for k, v in filters.items())
MatchesAny(x, f) ==
    \E j \in 1..Len(f) : Str(InfoGet(x, f[j][1])) = f[j][2]
Matches(x, f) ==
    \A j \in 1..Len(f) : Str(InfoGet(x, f[j][1])) = f[j][2]

\* "if filters:" then the match, else kept.
PassesFilters(x, f) == Len(f) = 0 \/ Matches(x, f)

\* The truth value of limit in "if limit and ...".
TruthyNotNone(l) == l.t # "none"
Truthy(l) == l.t = "int" /\ l.n # 0

\* "if limit and len(traces) >= limit: break"
LimitReachedAfter(l, tr) == Truthy(l) /\ Len(tr) > l.n
LimitReached(l, tr) == Truthy(l) /\ Len(tr) >= l.n

\* str(trace_path): the name stands for the path.
PathOf(name) == PyInt(name)

Init ==
    /\ dir \in [Names -> Entries]
    /\ filters \in FilterValues
    /\ limit \in LimitValues
    /\ pc = "start"
    /\ trace_folders = <<>>
    /\ i = 1
    /\ traces = <<>>
    /\ trace_data = EmptyRecord
    /\ info = EmptyInfo
    /\ exc = ""
    /\ loaded = {}

\* traces = [] and the sorted candidate list.
Enumerate ==
    /\ pc = "start"
    /\ trace_folders' = Sorted({name \in Names : IsCandidate(dir[name])})
    /\ traces' = <<>>
    /\ i' = 1
    /\ pc' = "loop"
    /\ UNCHANGED <<dir, filters, limit, trace_data, info, exc, loaded>>

\* The for loop has no candidate left: return traces.
LoopExhausted ==
    /\ pc = "loop"
    /\ i > Len(trace_folders)
    /\ pc' = "returned"
    /\ UNCHANGED <<dir, filters, limit, trace_folders, i, traces, trace_data,
                   info, exc, loaded>>

\* break, then return traces.
LoopBreak ==
    /\ pc = "loop"
    /\ i <= Len(trace_folders)
    /\ LimitReached(limit, traces)
    /\ pc' = "returned"
    /\ UNCHANGED <<dir, filters, limit, trace_folders, i, traces, trace_data,
                   info, exc, loaded>>

\* The turns of the loop body, by the way each one ends.
Turn == pc = "loop" /\ i <= Len(trace_folders) /\ ~LimitReached(limit, traces)
Current == dir[trace_folders[i]]

\* load_trace raises: the call ends with its exception.
LoadRaises ==
    /\ Turn
    /\ LoadTrace(Current).exc # ""
    /\ loaded' = loaded \cup {trace_folders[i]}
    /\ exc' = LoadTrace(Current).exc
    /\ pc' = "raised"
    /\ UNCHANGED <<dir, filters, limit, trace_folders, i, traces, trace_data, info>>

\* extract_trace_info raises: the call ends with its exception.
ExtractRaises ==
    /\ Turn
    /\ LoadTrace(Current).exc = ""
    /\ ExtractTraceInfo(LoadTrace(Current).data).exc # ""
    /\ loaded' = loaded \cup {trace_folders[i]}
    /\ trace_data' = LoadTrace(Current).data
    /\ exc' = ExtractTraceInfo(LoadTrace(Current).data).exc
    /\ pc' = "raised"
    /\ UNCHANGED <<dir, filters, limit, trace_folders, i, traces, info>>

\* The summary of the current candidate, when nothing raises.
Summarized ==
    /\ Turn
    /\ LoadTrace(Current).exc = ""
    /\ ExtractTraceInfo(LoadTrace(Current).data).exc = ""
    /\ loaded' = loaded \cup {trace_folders[i]}
    /\ trace_data' = LoadTrace(Current).data
    /\ info' = ExtractTraceInfo(LoadTrace(Current).data).info
    /\ i' = i + 1
    /\ UNCHANGED <<dir, filters, limit, trace_folders, pc, exc>>

\* "if not info: continue"
SkipEmpty ==
    /\ Summarized
    /\ IsEmptyInfo(info')
    /\ traces' = traces

\* The filters do not match: continue.
SkipNoMatch ==
    /\ Summarized
    /\ ~IsEmptyInfo(info')
    /\ ~PassesFilters(info', filters)
    /\ traces' = traces

\* info["path"] = str(trace_path); traces.append(info)
Keep ==
    /\ Summarized
    /\ ~IsEmptyInfo(info')
    /\ PassesFilters(info', filters)
    /\ traces' = Append(traces, [info' EXCEPT !.path = PathOf(trace_folders[i])])

Next ==
    \/ Enumerate
    \/ LoopExhausted
    \/ LoopBreak
    \/ LoadRaises
    \/ ExtractRaises
    \/ SkipEmpty
    \/ SkipNoMatch
    \/ Keep

Spec == Init /\ [][Next]_vars

(***************************************************************************)
(* extract_trace_info on its own, applied to every record of TraceRecords. *)
(***************************************************************************)
InitExtract ==
    /\ dir = [name \in Names |->
                [is_dir |-> TRUE, prefix |-> TRUE,
                 artifact |-> [file |-> "none", data |-> EmptyRecord]]]
    /\ filters = <<>>
    /\ limit = PyNone
    /\ pc = "extract"
    /\ trace_folders = <<>>
    /\ i = 1
    /\ traces = <<>>
    /\ trace_data \in TraceRecords
    /\ info = EmptyInfo
    /\ exc = ""
    /\ loaded = {}

\* The call returns its summary.
ExtractReturns ==
    /\ pc = "extract"
    /\ ExtractTraceInfo(trace_data).exc = ""
    /\ info' = ExtractTraceInfo(trace_data).info
    /\ pc' = "extracted"
    /\ UNCHANGED <<dir, filters, limit, trace_folders, i, traces, trace_data,
                   exc, loaded>>

\* The call raises.
ExtractFails ==
    /\ pc = "extract"
    /\ ExtractTraceInfo(trace_data).exc # ""
    /\ exc' = ExtractTraceInfo(trace_data).exc
    /\ pc' = "extract_raised"
    /\ UNCHANGED <<dir, filters, limit, trace_folders, i, traces, trace_data,
                   info, loaded>>

NextExtract ==
    \/ ExtractReturns
    \/ ExtractFails

SpecExtract == InitExtract /\ [][NextExtract]_vars

(***************************************************************************)
(* What the properties below speak about.                                  *)
(***************************************************************************)
Ended == pc \in {"returned", "raised"}
ExtractEnded == pc \in {"extracted", "extract_raised"}
IsAbsent(v) == v.t \in {"missing", "none"}
Positive(l) == l.t = "int" /\ l.n > 0

\* The summary of a candidate, and whether the call can get one from it.
SummaryOf(name) == ExtractTraceInfo(LoadTrace(dir[name]).data)
Fails(name) == LoadTrace(dir[name]).exc # "" \/ SummaryOf(name).exc # ""

\* Whether name is the path of a summary of traces.
InTraces(name) == \E q \in 1..Len(traces) : traces[q].path = PathOf(name)
PathsOf(tr) == [q \in 1..Len(tr) |-> tr[q].path.n]

\* The candidates in ascending order of name, and those of them whose
\* summary is not empty and agrees with every filter.
Candidates == Sorted({name \in Names : dir[name].is_dir /\ dir[name].prefix})
IsMatching(name) ==
    /\ ~Fails(name)
    /\ ~IsEmptyInfo(SummaryOf(name).info)
    /\ \A j \in 1..Len(filters) :
          Str(InfoGet(SummaryOf(name).info, filters[j][1])) = filters[j][2]
MatchingNames == SelectSeq(Candidates, IsMatching)
Min(a, b) == IF a <= b THEN a ELSE b

\* The first span's attribute values of a record with a span.
FirstInputs == AttributesOf(trace_data.spans[1]).inputs
FirstOutputs == AttributesOf(trace_data.spans[1]).outputs
HasSpan == trace_data.t = "dict" /\ trace_data.hasSpans /\ Len(trace_data.spans) > 0

(***************************************************************************)
(* Properties of list_traces (specification Spec).                         *)
(***************************************************************************)

\* C1: a candidate list_traces has summarized to a non-empty summary is in
\* traces if and only if, for every (key, expected) item of the filters,
\* str() of the summary's value for the key equals expected; the summary
\* kept is the candidate's summary with its path.  With no filters the
\* condition is empty and every non-empty summary is kept.
C1_KeptIffEveryFilterEqualsStr ==
    pc # "start" =>
    \A p \in 1..(i - 1) :
        LET name == trace_folders[p]
            summary == SummaryOf(name).info
        IN  ~IsEmptyInfo(summary) =>
              /\ InTraces(name) <=>
                   \A j \in 1..Len(filters) :
                       Str(InfoGet(summary, filters[j][1])) = filters[j][2]
              /\ \A q \in 1..Len(traces) :
                     traces[q].path = PathOf(name) =>
                        traces[q] = [summary EXCEPT !.path = PathOf(name)]

\* C1 witness: the integer span count 2 has matched the filter string "2".
C1_Witness ==
    /\ filters = <<<<"spans", "2">>>>
    /\ \E q \in 1..Len(traces) : traces[q].spans = PyInt(2)

\* C2: no summary of the result has a field absent (key not set, or set to
\* None) that the filters name.
C2_AbsentFieldNeverMatches ==
    \A q \in 1..Len(traces) :
        \A j \in 1..Len(filters) :
            LET k == filters[j][1]
            IN  k \in InfoKeys \ {"path"} /\ ~IsAbsent(traces[q][k])

\* C3: a call with limit None or a positive limit L ends by returning the
\* first min(L, M) matching candidates (all M for None), in ascending order
\* of name.
C3_ReturnsFirstMatching ==
    (Ended /\ (limit = PyNone \/ Positive(limit))) =>
        /\ pc = "returned"
        /\ PathsOf(traces) =
             SubSeq(MatchingNames, 1,
                    IF limit = PyNone THEN Len(MatchingNames)
                    ELSE Min(limit.n, Len(MatchingNames)))

\* C5: a candidate whose artifact is not valid JSON does not end the call
\* with an exception.
C5_MalformedArtifactContained ==
    (\E name \in loaded : dir[name].artifact.file = "malformed") => pc # "raised"

\* C6: for a folder with no artifact load_trace returns the empty record
\* and extract_trace_info the empty summary, neither raises, the folder is
\* never in traces, and traces has at most as many summaries as candidates
\* with an artifact have been loaded.
C6_NoArtifactSkipped ==
    /\ \A name \in loaded :
          dir[name].artifact.file = "none" =>
             /\ LoadTrace(dir[name]) = [exc |-> "", data |-> EmptyRecord]
             /\ SummaryOf(name) = [exc |-> "", info |-> EmptyInfo]
             /\ ~InTraces(name)
    /\ pc = "raised" => dir[trace_folders[i]].artifact.file # "none"
    /\ (pc \in {"loop", "returned"} /\ i > 1
           /\ dir[trace_folders[i - 1]].artifact.file = "none") =>
          trace_data = EmptyRecord /\ info = EmptyInfo
    /\ Len(traces) <=
          Cardinality({name \in loaded : dir[name].artifact.file # "none"})

\* C6 witness: a call with limit 1 has loaded a folder with no artifact and
\* returned one summary, of a later folder.
C6_Witness ==
    /\ pc = "returned"
    /\ limit = PyInt(1)
    /\ Len(traces) = 1
    /\ \E name \in loaded :
          dir[name].artifact.file = "none" /\ name < traces[1].path.n

\* C9: with a positive limit L, a candidate is loaded only while fewer than
\* L summaries are in traces; once L are collected the call returns them,
\* no later candidate is loaded and none can make the call raise.
C9_NothingLoadedAfterLimit ==
    Positive(limit) =>
        /\ \A name \in loaded :
              Cardinality({q \in 1..Len(traces) : traces[q].path.n < name}) < limit.n
        /\ Len(traces) <= limit.n
        /\ Len(traces) = limit.n =>
              /\ pc # "raised"
              /\ \A p \in 1..Len(trace_folders) :
                    trace_folders[p] > traces[limit.n].path.n =>
                       trace_folders[p] \notin loaded

\* C9 witness: the call has returned its L summaries and a candidate after
\* the last of them has a malformed artifact.
C9_Witness ==
    /\ pc = "returned"
    /\ Positive(limit)
    /\ Len(traces) = limit.n
    /\ \E p \in 1..Len(trace_folders) :
          /\ trace_folders[p] > traces[limit.n].path.n
          /\ dir[trace_folders[p]].artifact.file = "malformed"

\* C10: a call with limit 0 ends as a call with limit None does: it never
\* breaks, it raises at the first candidate that cannot be summarized, and
\* otherwise it scans every candidate and returns every matching one.
C10_ZeroLimitIsUnlimited ==
    (limit \in {PyInt(0), PyNone} /\ Ended) =>
        LET bad == {p \in 1..Len(Candidates) : Fails(Candidates[p])}
        IN  IF bad = {}
            THEN /\ pc = "returned"
                 /\ i = Len(Candidates) + 1
                 /\ loaded = {Candidates[p] : p \in 1..Len(Candidates)}
                 /\ PathsOf(traces) = MatchingNames
            ELSE /\ pc = "raised"
                 /\ \A p \in bad : i <= p
                 /\ PathsOf(traces) =
                      SelectSeq(SubSeq(Candidates, 1, i - 1), IsMatching)

\* C10 witness: a call with limit 0 has returned two summaries.
C10_Witness ==
    /\ pc = "returned"
    /\ limit = PyInt(0)
    /\ Len(traces) >= 2

(***************************************************************************)
(* Properties of extract_trace_info (specification SpecExtract).           *)
(***************************************************************************)

\* C4: whatever the first span's "mlflow.spanInputs" and
\* "mlflow.spanOutputs" values are, the call returns a summary with the
\* identifier, the status and the span count.
C4_AttributesNeverRaise ==
    (ExtractEnded /\ HasSpan) =>
        /\ pc = "extracted"
        /\ info.trace_id = Get(trace_data.trace_id)
        /\ info.spans = PyInt(Len(trace_data.spans))

\* C7: the summary of a non-empty record with zero spans has trace_id,
\* status and spans set, spans = 0, and none of the span-derived keys.
C7_ZeroSpansNoDerivedFields ==
    (ExtractEnded /\ trace_data.t = "dict" /\ ~HasSpan) =>
        /\ pc = "extracted"
        /\ info.trace_id = Get(trace_data.trace_id)
        /\ info.status = (IF trace_data.status.t = "dict"
                          THEN Get(trace_data.status.code) ELSE PyNone)
        /\ info.spans = PyInt(0)
        /\ \A k \in DerivedKeys : info[k] = Missing

\* C7 witness: a record with an identifier, a status and "spans": [] has
\* been summarized.
C7_Witness ==
    /\ pc = "extracted"
    /\ trace_data.t = "dict"
    /\ trace_data.hasSpans
    /\ trace_data.spans = <<>>
    /\ info.trace_id = PyStr("t1")
    /\ info.status = PyStr("OK")

\* C8: when "mlflow.spanOutputs" of the first span decodes to an object,
\* output_tokens of the summary is the length of token_ids if that is a
\* list (0 if the key is missing) and is absent otherwise; and the call
\* raises only if the value of "mlflow.spanInputs" is no string.
C8_OutputTokens ==
    (ExtractEnded /\ HasSpan /\ FirstOutputs.t = "text"
        /\ FirstOutputs.data.t = "dict") =>
            LET token_ids == FirstOutputs.data.token_ids
            IN  /\ pc = "extract_raised" => FirstInputs.t = "nonstr"
                /\ pc = "extracted" =>
                     CASE token_ids.t = "list" ->
                              info.output_tokens = PyInt(token_ids.n)
                       [] token_ids.t = "missing" ->
                              info.output_tokens = PyInt(0)
                       [] OTHER -> IsAbsent(info.output_tokens)

\* C8 witness: a summary made from a spanOutputs object whose token_ids
\* is a string.
C8_Witness ==
    /\ pc = "extracted"
    /\ HasSpan
    /\ FirstOutputs.t = "text"
    /\ FirstOutputs.data.t = "dict"
    /\ FirstOutputs.data.token_ids = PyStr("abc")
    /\ IsAbsent(info.output_tokens)

=============================================================================
